---- MODULE Spec2Model ----
(***************************************************************************)
(* Concert reconciliation core of ThorCode: the batch normaliser           *)
(* (removeDuplicateEvents), the concert matcher (findConcert), the         *)
(* band-concert reconciler (addConcert, addToExistingConcert) and the      *)
(* handlers that drive them (POST /bands, POST /bands/:bandId/sync-        *)
(* concerts, DELETE /bands/:bandId), over a relational store.              *)
(*                                                                         *)
(* An optional value is a sequence of length 0 (absent / null / undefined) *)
(* or 1 (present).  A date-time is a record [day, time]; the calendar date *)
(* of a date-time is its day component.                                    *)
(***************************************************************************)
EXTENDS Integers, Sequences, FiniteSets, TLC

VARIABLES
  bands,      \* rows of table band: [id, name, ticketmaster_id]
  concerts,   \* rows of table concert: [id] + the canonical event's fields
  refs,       \* rows of table concertBandReference: [id, concert, band]
  wishlists,  \* rows of table wishlist: [id, name]
  wlrefs,     \* rows of table wishlistBandReference: [id, wishlist_id, band_id]
  seq,        \* autoincrement counters of the tables
  proc,       \* per request in flight: position and locals of its handler
  ops,        \* number of requests started so far
  response,   \* the reply sent by the step just taken (a projection with the
              \* query it answers), NoResp when it sent none
  batch,      \* input of the normaliser run on its own
  result      \* its outcome

vars == <<bands, concerts, refs, wishlists, wlrefs, seq, proc, ops, response,
          batch, result>>

----------------------------------------------------------------------------
(* Bounds *)

MaxLen == 2        \* raw events in a batch given to the normaliser alone
MaxBatch == 2      \* raw events in a batch returned by the event fetch
MaxOps == 3        \* requests started in one behaviour

----------------------------------------------------------------------------
(* Values *)

None == <<>>
Some(x) == <<x>>
IsSome(o) == Len(o) > 0
Get(o) == o[1]

Days == {1, 2}
Times == {"10:00", "20:00"}
DateTimes == [day : Days, time : Times]

VenueNames == {"V1", "V2"}
EventIds == {"E1", "E2", "E3"}

\* new Date(dt).toISOString().split('T')[0]: the calendar date, time dropped
isoDate(dt) == dt.day

FestivalThreshold == 6

----------------------------------------------------------------------------
(* Raw events of the external source.  Every nested field may be absent. *)

RawVenue(name, country, city, location) ==
  [name |-> name, country |-> country, city |-> city, location |-> location]

RawDates(start, status) == [start |-> start, status |-> status]

RawEvent(id, venue, dates, attractions, sales) ==
  [id |-> id, venue |-> venue, dates |-> dates,
   attractions |-> attractions, sales |-> sales]

\* a raw event with every nested object present
FullEvent(id, vname, dateTime, nperf) ==
  RawEvent(id,
           Some(RawVenue(vname, Some("SE"), Some("Stockholm"),
                         Some([longitude |-> "18.06", latitude |-> "59.33"]))),
           Some(RawDates(Some([dateTime |-> dateTime]), Some("onsale"))),
           nperf,
           Some([day |-> 1, time |-> "10:00"]))

BaseEvent == FullEvent("E1", Some("V1"), Some([day |-> 1, time |-> "10:00"]), Some(2))

\* the base event with one nested field taken away, or another value in it
DefectEvents ==
  { [BaseEvent EXCEPT !.venue = None],
    [BaseEvent EXCEPT !.venue = Some([Get(BaseEvent.venue) EXCEPT !.country = None])],
    [BaseEvent EXCEPT !.venue = Some([Get(BaseEvent.venue) EXCEPT !.city = None])],
    [BaseEvent EXCEPT !.venue = Some([Get(BaseEvent.venue) EXCEPT !.location = None])],
    [BaseEvent EXCEPT !.dates = None],
    [BaseEvent EXCEPT !.dates = Some(RawDates(None, Some("onsale")))],
    [BaseEvent EXCEPT !.dates = Some([Get(BaseEvent.dates) EXCEPT !.status = None])],
    [BaseEvent EXCEPT !.dates = Some([Get(BaseEvent.dates) EXCEPT !.status = Some("offsale")])],
    [BaseEvent EXCEPT !.sales = None],
    [BaseEvent EXCEPT !.attractions = None],
    [BaseEvent EXCEPT !.attractions = Some(FestivalThreshold)],
    [BaseEvent EXCEPT !.attractions = Some(FestivalThreshold + 1)] }

NormEvents ==
  { FullEvent(id, vn, dt, Some(2)) :
      id \in {"E1", "E2"},
      vn \in {None} \cup {Some(v) : v \in VenueNames},
      dt \in {None} \cup {Some(d) : d \in DateTimes} }
  \cup DefectEvents

----------------------------------------------------------------------------
(* Event Normalizer: removeDuplicateEvents *)

\* event._embedded?.venues?.[0]?.name || 'unknown'
keyVenue(e) ==
  IF IsSome(e.venue) /\ IsSome(Get(e.venue).name)
  THEN Get(Get(e.venue).name) ELSE "unknown"

\* event.dates?.start?.dateTime ? ...toISOString().split('T')[0] : 'unknown'
rawDateTime(e) ==
  IF IsSome(e.dates) /\ IsSome(Get(e.dates).start)
  THEN Get(Get(e.dates).start).dateTime ELSE None

keyDate(e) ==
  IF IsSome(rawDateTime(e)) THEN Some(isoDate(Get(rawDateTime(e)))) ELSE None

\* `${venue}_${eventDate}`
eventKey(e) == <<keyVenue(e), keyDate(e)>>

\* The object literal pushed for a first-seen key dereferences location.country,
\* location.city, dates.start and dates.status without a guard: a TypeError
\* when one of them is undefined.
pushThrows(e) ==
  \/ ~IsSome(e.venue)
  \/ ~IsSome(Get(e.venue).country)
  \/ ~IsSome(Get(e.venue).city)
  \/ ~IsSome(e.dates)
  \/ ~IsSome(Get(e.dates).start)
  \/ ~IsSome(Get(e.dates).status)

\* mutant: an event with exactly FestivalThreshold performers is a festival
canonicalEvent_festivalAtThreshold(e) ==
  LET location == Get(e.venue)
      dates == Get(e.dates)
      performingBands == IF IsSome(e.attractions) THEN Get(e.attractions) ELSE 0
  IN [country |-> Get(location.country),
      city |-> Get(location.city),
      venue |-> IF IsSome(location.name) THEN Get(location.name) ELSE "unknown",
      event_id |-> e.id,
      longitude |-> IF IsSome(location.location)
                    THEN Some(Get(location.location).longitude) ELSE None,
      latitude |-> IF IsSome(location.location)
                   THEN Some(Get(location.location).latitude) ELSE None,
      festival |-> performingBands >= FestivalThreshold,
      ticket_sale_start |-> e.sales,
      concert_date |-> Get(dates.start).dateTime,
      on_sale |-> Get(dates.status) = "onsale",
      metadata |-> [performers |-> performingBands, city |-> Get(location.city)]]

\* the canonical event pushed for a raw event (created_at, name and url are
\* copies that no decision reads and are left out)
canonicalEvent(e) ==
  LET location == Get(e.venue)
      dates == Get(e.dates)
      performingBands == IF IsSome(e.attractions) THEN Get(e.attractions) ELSE 0
  IN [country |-> Get(location.country),
      city |-> Get(location.city),
      venue |-> IF IsSome(location.name) THEN Get(location.name) ELSE "unknown",
      event_id |-> e.id,
      longitude |-> IF IsSome(location.location)
                    THEN Some(Get(location.location).longitude) ELSE None,
      latitude |-> IF IsSome(location.location)
                   THEN Some(Get(location.location).latitude) ELSE None,
      festival |-> performingBands > FestivalThreshold,
      ticket_sale_start |-> e.sales,
      concert_date |-> Get(dates.start).dateTime,
      on_sale |-> Get(dates.status) = "onsale",
      metadata |-> [performers |-> performingBands, city |-> Get(location.city)]]

RECURSIVE dedupFrom(_, _, _, _)
dedupFrom(events, i, seenVenueDates, uniqueEvents) ==
  IF i > Len(events)
  THEN [threw |-> FALSE, events |-> uniqueEvents]
  ELSE LET event == events[i]
           key == eventKey(event)
       IN IF key \in seenVenueDates
          THEN dedupFrom(events, i + 1, seenVenueDates, uniqueEvents)
          ELSE IF pushThrows(event)
               THEN [threw |-> TRUE, events |-> <<>>]
               ELSE dedupFrom(events, i + 1, seenVenueDates \cup {key},
                              Append(uniqueEvents, canonicalEvent(event)))

removeDuplicateEvents(events) == dedupFrom(events, 1, {}, <<>>)

----------------------------------------------------------------------------
(* The normaliser run on its own over every batch of at most MaxLen raw events *)

NotRun == [ran |-> FALSE, threw |-> FALSE, events |-> <<>>]

SeqsUpTo(S, n) == UNION {[1..k -> S] : k \in 0..n}

Normalize ==
  /\ ~result.ran
  /\ result' = [ran |-> TRUE] @@ removeDuplicateEvents(batch)
  /\ UNCHANGED <<bands, concerts, refs, wishlists, wlrefs, seq, proc, ops, response,
                 batch>>

----------------------------------------------------------------------------
(* The external source as the handlers see it *)

Procs == {"p1", "p2"}

\* attractions the band lookup can return: [name, id]
Attractions ==
  { [name |-> "Alpha", id |-> "T1"], [name |-> "Beta", id |-> "T2"] }

\* raw events the event fetch can return
SyncEvents ==
  { FullEvent("E1", Some("V1"), Some([day |-> 1, time |-> "10:00"]), Some(2)),
    FullEvent("E2", Some("V1"), Some([day |-> 1, time |-> "10:00"]), Some(2)),
    FullEvent("E1", Some("V2"), Some([day |-> 2, time |-> "10:00"]), Some(2)),
    FullEvent("E2", Some("V1"), Some([day |-> 1, time |-> "20:00"]), Some(2)),
    FullEvent("E3", Some("V1"), None, Some(2)),
    [BaseEvent EXCEPT !.id = "E3",
                      !.dates = Some([Get(BaseEvent.dates) EXCEPT !.status = None])] }

FetchBatches == SeqsUpTo(SyncEvents, MaxBatch) \ {<<>>}

\* the events fetched by requests that overlap: one event, and one that shares
\* only its external id, each fetched alone
RaceEvents ==
  { FullEvent("E1", Some("V1"), Some([day |-> 1, time |-> "10:00"]), Some(2)),
    FullEvent("E1", Some("V2"), Some([day |-> 2, time |-> "10:00"]), Some(2)) }

RaceBatches == {<<e>> : e \in RaceEvents}

----------------------------------------------------------------------------
(* The store *)

\* mutant: the scheduled date is not stored
concertRow_dropDate(id, event) == [id |-> id] @@ [event EXCEPT !.concert_date = None]

\* prisma.concert.create({ data: { ...event } })
concertRow(id, event) == [id |-> id] @@ event

refRow(id, concert, band) == [id |-> id, concert |-> concert, band |-> band]

\* mutants of the where clause: a key dropped, a null date matching any date
matchesEvent_venueDateOnly(c, event) ==
  /\ c.concert_date = event.concert_date
  /\ c.venue = event.venue

matchesEvent_idOnly(c, event) == c.event_id = event.event_id

matchesEvent_nullAnyDate(c, event) ==
  \/ c.event_id = event.event_id
  \/ /\ (event.concert_date = None \/ c.concert_date = event.concert_date)
     /\ c.venue = event.venue

\* the where clause of findConcert: OR [event_id, AND [concert_date, venue]]
matchesEvent(c, event) ==
  \/ c.event_id = event.event_id
  \/ /\ c.concert_date = event.concert_date
     /\ c.venue = event.venue

\* prisma.concert.findFirst: some matching row (no orderBy), or null
findConcert(event) ==
  LET matching == {c \in concerts : matchesEvent(c, event)}
  IN IF matching = {} THEN {None} ELSE {Some(c) : c \in matching}

\* mutant: the matcher run again before the insert
concertCreate_recheck(event) ==
  IF findConcert(event) = {None}
  THEN concerts \cup {concertRow(seq.concert, event)}
  ELSE concerts

\* the concert table after prisma.concert.create of the event
concertCreate(event) == concerts \cup {concertRow(seq.concert, event)}

\* mutant: the existing references are not looked at
alreadyLinked_never(existingBands, band) == FALSE

\* existingBands.some(b => b.band === band.id)
alreadyLinked(existingBands, band) == \E b \in existingBands : b.band = band.id

\* the foreign keys of a concertBandReference row
refInsertable(concert, band) ==
  /\ \E c \in concerts : c.id = concert
  /\ \E b \in bands : b.id = band

bandsOf(rs, concert) == {r.band : r \in {x \in rs : x.concert = concert}}

----------------------------------------------------------------------------
(* Requests.  Every await of a handler is one step. *)

NoBand == [id |-> 0, name |-> "", ticketmaster_id |-> ""]

NoResp == [op |-> "none", code |-> 0, newConcerts |-> 0,
           removedConcerts |-> {}, removedConcertReferences |-> 0,
           removedWishlistReferences |-> 0, view |-> None, query |-> None]

Resp(op, code) == [NoResp EXCEPT !.op = op, !.code = code]

Idle ==
  [pc |-> "idle", op |-> "none", user |-> None, band |-> NoBand, req |-> None,
   wishlistId |-> None, uniqueEvents |-> <<>>, queue |-> <<>>, existing |-> None,
   created |-> None, concertIds |-> {}, newConcerts |-> 0, bandIds |-> {}]

\* a request arrives; under sequential clients only when none is in flight
Start(p, sequential) ==
  /\ proc[p].pc = "idle"
  /\ sequential => \A q \in Procs : proc[q].pc = "idle"
  /\ ops < MaxOps
  /\ ops' = ops + 1

\* res.status(...).json(...): the handler ends
Reply(p, resp) ==
  /\ proc' = [proc EXCEPT ![p] = Idle]
  /\ response' = resp

\* the handler goes on to its next await
Goto(p, local) ==
  /\ proc' = [proc EXCEPT ![p] = local]
  /\ response' = NoResp

\* mutant: the exception is swallowed and the loop goes on with the next event
Fail_continue(p) ==
  IF proc[p].queue # <<>>
  THEN Goto(p, [proc[p] EXCEPT !.pc = "addConcert_return"])
  ELSE Reply(p, Resp(proc[p].op, 500))

\* an exception thrown in the concert loop: the handlers of the band routes
\* catch it and answer 500; POST /wishlists/:id/bands only logs it and goes on
\* to the wishlist link
Fail(p) ==
  IF proc[p].op = "wlAddBand"
  THEN Goto(p, [proc[p] EXCEPT !.pc = "wl_check", !.queue = <<>>,
                               !.existing = None, !.created = None])
  ELSE Reply(p, Resp(proc[p].op, 500))

NormVars == <<batch, result>>

StoreVars == <<bands, concerts, refs, wishlists, wlrefs, seq>>

\* the for loop over uniqueEvents, left after its last event
AfterEvent(p, local) ==
  LET rest == Tail(local.queue)
      next == [local EXCEPT !.queue = rest, !.existing = None, !.created = None]
  IN IF rest # <<>>
     THEN Goto(p, [next EXCEPT !.pc = "loop"])
     ELSE IF local.op = "postBands" /\ IsSome(local.wishlistId)
          THEN Goto(p, [next EXCEPT !.pc = "post_wishlist"])
          ELSE IF local.op = "wlAddBand"
          THEN Goto(p, [next EXCEPT !.pc = "wl_check"])
          ELSE Reply(p, [Resp(local.op, 200) EXCEPT !.newConcerts = local.newConcerts])

\* the events of a fetch, normalised, entering the loop
EnterLoop(p, events) ==
  LET uniqueEvents == removeDuplicateEvents(events)
  IN IF uniqueEvents.threw
     THEN Fail(p)
     ELSE Goto(p, [proc[p] EXCEPT !.pc = "loop", !.uniqueEvents = uniqueEvents.events,
                                  !.queue = uniqueEvents.events])

(* POST /bands/:bandId/sync-concerts *)

SyncStart(p, sequential) ==
  \E bandId \in 1..MaxOps :
    /\ Start(p, sequential)
    /\ LET found == {b \in bands : b.id = bandId}
       IN IF found = {}
          THEN Reply(p, Resp("sync", 404))
          ELSE \E band \in found :
                 Goto(p, [proc[p] EXCEPT !.pc = "sync_fetch", !.op = "sync",
                                         !.band = band])
    /\ UNCHANGED <<StoreVars, NormVars>>

SyncFetch(p, batches) ==
  /\ proc[p].pc = "sync_fetch"
  /\ \/ \E code \in {404, 429, 500} : Reply(p, Resp("sync", code))
     \/ Reply(p, Resp("sync", 200))          \* no events found for this band
     \/ \E events \in batches : EnterLoop(p, events)
  /\ UNCHANGED <<StoreVars, NormVars, ops>>

(* the loop body: findConcert, then addConcert or addToExistingConcert *)

FindConcert(p) ==
  /\ proc[p].pc = "loop"
  /\ \E existingConcert \in findConcert(Head(proc[p].queue)) :
       Goto(p, [proc[p] EXCEPT
                  !.existing = existingConcert,
                  !.pc = IF IsSome(existingConcert) THEN "link_read"
                                                   ELSE "addConcert_create"])
  /\ UNCHANGED <<StoreVars, NormVars, ops>>

AddConcertCreate(p) ==
  /\ proc[p].pc = "addConcert_create"
  /\ LET concert == concertRow(seq.concert, Head(proc[p].queue))
     IN /\ concerts' = concertCreate(Head(proc[p].queue))
        /\ seq' = [seq EXCEPT !.concert = @ + 1]
        /\ Goto(p, [proc[p] EXCEPT !.pc = "addConcert_ref",
                                   !.created = Some(concert)])
  /\ UNCHANGED <<bands, refs, wishlists, wlrefs, NormVars, ops>>

AddConcertRef(p) ==
  /\ proc[p].pc = "addConcert_ref"
  /\ LET concert == Get(proc[p].created)
         band == proc[p].band
     IN IF refInsertable(concert.id, band.id)
        THEN /\ refs' = refs \cup {refRow(seq.ref, concert.id, band.id)}
             /\ seq' = [seq EXCEPT !.ref = @ + 1]
             /\ Goto(p, [proc[p] EXCEPT !.pc = "addConcert_return"])
        ELSE /\ Fail(p)
             /\ UNCHANGED <<refs, seq>>
  /\ UNCHANGED <<bands, concerts, wishlists, wlrefs, NormVars, ops>>

LinkRead(p) ==
  /\ proc[p].pc = "link_read"
  /\ LET concert == Get(proc[p].existing)
         existingBands == {r \in refs : r.concert = concert.id}
     IN IF alreadyLinked(existingBands, proc[p].band)
        THEN Goto(p, [proc[p] EXCEPT !.pc = "link_noop"])
        ELSE Goto(p, [proc[p] EXCEPT !.pc = "link_create"])
  /\ UNCHANGED <<StoreVars, NormVars, ops>>

\* mutant: the event's fields are merged into the matched concert
LinkCreate_merge(p) ==
  /\ proc[p].pc = "link_create"
  /\ LET concert == Get(proc[p].existing)
         band == proc[p].band
     IN /\ refs' = refs \cup {refRow(seq.ref, concert.id, band.id)}
        /\ concerts' = {IF c.id = concert.id
                        THEN concertRow(c.id, Head(proc[p].queue)) ELSE c : c \in concerts}
        /\ seq' = [seq EXCEPT !.ref = @ + 1]
        /\ Goto(p, [proc[p] EXCEPT !.pc = "link_created"])
  /\ UNCHANGED <<bands, wishlists, wlrefs, NormVars, ops>>

LinkCreate(p) ==
  /\ proc[p].pc = "link_create"
  /\ LET concert == Get(proc[p].existing)
         band == proc[p].band
     IN IF refInsertable(concert.id, band.id)
        THEN /\ refs' = refs \cup {refRow(seq.ref, concert.id, band.id)}
             /\ seq' = [seq EXCEPT !.ref = @ + 1]
             /\ Goto(p, [proc[p] EXCEPT !.pc = "link_created"])
        ELSE /\ Fail(p)
             /\ UNCHANGED <<refs, seq>>
  /\ UNCHANGED <<bands, concerts, wishlists, wlrefs, NormVars, ops>>

\* mutant: newConcerts is incremented for a linked concert too
LoopNext_countLinks(p) ==
  /\ proc[p].pc \in {"addConcert_return", "link_noop", "link_created"}
  /\ AfterEvent(p, IF proc[p].pc \in {"addConcert_return", "link_created"}
                      /\ proc[p].op = "sync"
                   THEN [proc[p] EXCEPT !.newConcerts = @ + 1]
                   ELSE proc[p])
  /\ UNCHANGED <<StoreVars, NormVars, ops>>

\* the awaited helper has returned: the loop body ends (sync-concerts counts
\* the concerts it added)
LoopNext(p) ==
  /\ proc[p].pc \in {"addConcert_return", "link_noop", "link_created"}
  /\ AfterEvent(p, IF proc[p].pc = "addConcert_return" /\ proc[p].op = "sync"
                   THEN [proc[p] EXCEPT !.newConcerts = @ + 1]
                   ELSE proc[p])
  /\ UNCHANGED <<StoreVars, NormVars, ops>>

(* POST /bands *)

PostRequests ==
  {[by |-> "ticketmaster_id", key |-> a.id] : a \in Attractions}
  \cup {[by |-> "name", key |-> a.name] : a \in Attractions}

PostStart(p, sequential) ==
  \E req \in PostRequests, wishlistId \in {None, Some(1)} :
    /\ Start(p, sequential)
    /\ LET band == IF req.by = "ticketmaster_id"
                   THEN {b \in bands : b.ticketmaster_id = req.key}
                   ELSE {b \in bands : b.name = req.key}
       IN IF band # {}
          THEN Reply(p, Resp("postBands", 409))
          ELSE Goto(p, [proc[p] EXCEPT !.pc = "post_lookup", !.op = "postBands",
                                       !.req = Some(req), !.wishlistId = wishlistId])
    /\ UNCHANGED <<StoreVars, NormVars>>

\* what the attraction lookup can answer to a request
lookupAnswers(req) ==
  IF req.by = "ticketmaster_id"
  THEN {a \in Attractions : a.id = req.key}
  ELSE Attractions

PostLookup(p) ==
  /\ proc[p].pc = "post_lookup"
  /\ \/ \E code \in {404, 429, 500} : Reply(p, Resp("postBands", code))
     \/ \E bandData \in lookupAnswers(Get(proc[p].req)) :
          Goto(p, [proc[p] EXCEPT
                     !.pc = "post_create", !.req = None,
                     !.band = [id |-> 0, name |-> bandData.name,
                               ticketmaster_id |-> bandData.id]])
  /\ UNCHANGED <<StoreVars, NormVars, ops>>

\* prisma.band.create: name and ticketmaster_id are unique keys of band
PostCreate(p) ==
  /\ proc[p].pc = "post_create"
  /\ LET bandData == proc[p].band
         newBand == [bandData EXCEPT !.id = seq.band]
     IN IF \E b \in bands : \/ b.name = bandData.name
                            \/ b.ticketmaster_id = bandData.ticketmaster_id
        THEN /\ Reply(p, Resp("postBands", 500))
             /\ UNCHANGED <<bands, seq>>
        ELSE /\ bands' = bands \cup {newBand}
             /\ seq' = [seq EXCEPT !.band = @ + 1]
             /\ Goto(p, [proc[p] EXCEPT !.pc = "post_fetch", !.band = newBand])
  /\ UNCHANGED <<concerts, refs, wishlists, wlrefs, NormVars, ops>>

PostFetch(p, batches) ==
  /\ proc[p].pc = "post_fetch"
  /\ \/ \E code \in {404, 429, 500} : Reply(p, Resp("postBands", code))
     \/ \E events \in batches : EnterLoop(p, events)
  /\ UNCHANGED <<StoreVars, NormVars, ops>>

PostWishlist(p) ==
  /\ proc[p].pc = "post_wishlist"
  /\ LET wishlistId == Get(proc[p].wishlistId)
         band == proc[p].band
     IN IF /\ \E w \in wishlists : w.id = wishlistId
           /\ \E b \in bands : b.id = band.id
        THEN /\ wlrefs' = wlrefs \cup {[id |-> seq.wlref, wishlist_id |-> wishlistId,
                                        band_id |-> band.id]}
             /\ seq' = [seq EXCEPT !.wlref = @ + 1]
             /\ Reply(p, Resp("postBands", 200))
        ELSE /\ Reply(p, Resp("postBands", 500))
             /\ UNCHANGED <<wlrefs, seq>>
  /\ UNCHANGED <<bands, concerts, refs, wishlists, NormVars, ops>>

(* DELETE /bands/:bandId *)

DeleteStart(p, sequential) ==
  \E bandId \in 1..MaxOps :
    /\ Start(p, sequential)
    /\ LET found == {b \in bands : b.id = bandId}
       IN IF found = {}
          THEN Reply(p, Resp("delete", 404))
          ELSE \E band \in found :
                 Goto(p, [proc[p] EXCEPT
                            !.pc = "delete_tx", !.op = "delete", !.band = band,
                            !.concertIds = {r.concert : r \in {x \in refs : x.band = bandId}}])
    /\ UNCHANGED <<StoreVars, NormVars>>

\* mutant: every concert of the deleted band counts as an orphan
orphansAmong_noRefCheck(concertIds, rs) == {c \in concerts : c.id \in concertIds}

\* mutant: no concert is looked for after the references are deleted
orphansAmong_none(concertIds, rs) == {}

\* the concerts among concertIds that no reference row of rs names
orphansAmong(concertIds, rs) ==
  {c \in concerts : c.id \in concertIds /\ ~\E r \in rs : r.concert = c.id}

\* mutant: the wishlist references of the band are left in place
DeleteTx_keepWishlistRefs(p) ==
  /\ proc[p].pc = "delete_tx"
  /\ LET bandId == proc[p].band.id
         concertRefsDeleted == {r \in refs : r.band = bandId}
         orphans == orphansAmong(proc[p].concertIds, refs \ concertRefsDeleted)
     IN /\ refs' = refs \ concertRefsDeleted
        /\ bands' = {b \in bands : b.id # bandId}
        /\ concerts' = concerts \ orphans
        /\ Reply(p, [Resp("delete", 200) EXCEPT
                       !.removedConcerts = {c.id : c \in orphans},
                       !.removedConcertReferences = Cardinality(concertRefsDeleted),
                       !.removedWishlistReferences =
                           Cardinality({r \in wlrefs : r.band_id = bandId})])
  /\ UNCHANGED <<wlrefs, wishlists, seq, NormVars, ops>>

\* prisma.$transaction: all of it or, when band.delete finds no row, none of it
DeleteTx(p) ==
  /\ proc[p].pc = "delete_tx"
  /\ LET bandId == proc[p].band.id
         wishlistRefsDeleted == {r \in wlrefs : r.band_id = bandId}
         concertRefsDeleted == {r \in refs : r.band = bandId}
         orphans == orphansAmong(proc[p].concertIds, refs \ concertRefsDeleted)
     IN IF ~\E b \in bands : b.id = bandId
        THEN /\ Reply(p, Resp("delete", 500))
             /\ UNCHANGED <<bands, concerts, refs, wlrefs>>
        ELSE /\ wlrefs' = wlrefs \ wishlistRefsDeleted
             /\ refs' = refs \ concertRefsDeleted
             /\ bands' = {b \in bands : b.id # bandId}
             /\ concerts' = concerts \ orphans
             /\ Reply(p, [Resp("delete", 200) EXCEPT
                            !.removedConcerts = {c.id : c \in orphans},
                            !.removedConcertReferences = Cardinality(concertRefsDeleted),
                            !.removedWishlistReferences =
                                Cardinality(wishlistRefsDeleted)])
  /\ UNCHANGED <<wishlists, seq, NormVars, ops>>

(* A store write that rejects (connectivity loss, a constraint): the awaited
   call throws in place of writing. *)

WritePcs ==
  {"addConcert_create", "addConcert_ref", "link_create", "post_create",
   "post_wishlist", "delete_tx"}

StoreWriteFails(p) ==
  /\ proc[p].pc \in WritePcs
  /\ Fail(p)
  /\ UNCHANGED <<StoreVars, NormVars, ops>>

(* POST /wishlists *)

CreateWishlist(p, sequential) ==
  /\ Start(p, sequential)
  /\ wishlists' = wishlists \cup {[id |-> seq.wishlist, name |-> "W", user_id |-> "u1"]}
  /\ seq' = [seq EXCEPT !.wishlist = @ + 1]
  /\ Reply(p, Resp("postWishlists", 201))
  /\ UNCHANGED <<bands, concerts, refs, wlrefs, NormVars>>

----------------------------------------------------------------------------
(* Wishlist routes: PUT /wishlists/:id, POST /wishlists/:id/bands,
   DELETE /wishlists/:id/bands/:bandId, DELETE /wishlists/:id *)

Users == {"u1", "u2"}

\* existingWishlist of a request of user: the 404 / 403 replies, or the row
wishlistFor(wishlistId, user) ==
  LET found == {w \in wishlists : w.id = wishlistId}
  IN IF found = {} THEN [code |-> 404]
     ELSE IF (CHOOSE w \in found : TRUE).user_id # user THEN [code |-> 403]
     ELSE [code |-> 200]

\* mutant: the wishlist's references are not looked at
existingReference_none(wishlistId, bandId) == {}

\* prisma.wishlistBandReference.findFirst({ where: { wishlist_id, band_id } })
existingReference(wishlistId, bandId) ==
  {r \in wlrefs : r.wishlist_id = wishlistId /\ r.band_id = bandId}

(* PUT /wishlists/:id *)

WishlistNames == {"W", "W2"}

WlRenameStart(p, sequential) ==
  \E wishlistId \in 1..2, name \in WishlistNames, user \in Users :
    /\ Start(p, sequential)
    /\ LET existingWishlist == wishlistFor(wishlistId, user)
       IN IF existingWishlist.code # 200
          THEN Reply(p, Resp("wlRename", existingWishlist.code))
          ELSE Goto(p, [proc[p] EXCEPT !.pc = "wl_rename", !.op = "wlRename",
                                       !.user = Some(user),
                                       !.wishlistId = Some(wishlistId),
                                       !.req = Some(name)])
    /\ UNCHANGED <<StoreVars, NormVars>>

\* prisma.wishlist.update: throws when the row is gone
WlRenameUpdate(p) ==
  /\ proc[p].pc = "wl_rename"
  /\ LET wishlistId == Get(proc[p].wishlistId)
     IN IF \E w \in wishlists : w.id = wishlistId
        THEN /\ wishlists' = {IF w.id = wishlistId
                              THEN [w EXCEPT !.name = Get(proc[p].req)] ELSE w :
                                w \in wishlists}
             /\ Reply(p, Resp("wlRename", 200))
        ELSE /\ Reply(p, Resp("wlRename", 500))
             /\ UNCHANGED wishlists
  /\ UNCHANGED <<bands, concerts, refs, wlrefs, seq, NormVars, ops>>

(* POST /wishlists/:id/bands *)

WlAddStart(p, sequential) ==
  \E wishlistId \in 1..2, req \in PostRequests, user \in Users :
    /\ Start(p, sequential)
    /\ LET existingWishlist == wishlistFor(wishlistId, user)
       IN IF existingWishlist.code # 200
          THEN Reply(p, Resp("wlAddBand", existingWishlist.code))
          ELSE Goto(p, [proc[p] EXCEPT !.pc = "wl_findBand", !.op = "wlAddBand",
                                       !.user = Some(user),
                                       !.wishlistId = Some(wishlistId),
                                       !.req = Some(req)])
    /\ UNCHANGED <<StoreVars, NormVars>>

WlFindBand(p) ==
  /\ proc[p].pc = "wl_findBand"
  /\ LET req == Get(proc[p].req)
         band == IF req.by = "ticketmaster_id"
                 THEN {b \in bands : b.ticketmaster_id = req.key}
                 ELSE {b \in bands : b.name = req.key}
     IN IF band = {}
        THEN Goto(p, [proc[p] EXCEPT !.pc = "wl_lookup"])
        ELSE \E b \in band :
               Goto(p, [proc[p] EXCEPT !.pc = "wl_check", !.band = b, !.req = None])
  /\ UNCHANGED <<StoreVars, NormVars, ops>>

WlLookup(p) ==
  /\ proc[p].pc = "wl_lookup"
  /\ \/ \E code \in {404, 429, 500} : Reply(p, Resp("wlAddBand", code))
     \/ \E bandData \in lookupAnswers(Get(proc[p].req)) :
          Goto(p, [proc[p] EXCEPT
                     !.pc = "wl_create", !.req = None,
                     !.band = [id |-> 0, name |-> bandData.name,
                               ticketmaster_id |-> bandData.id]])
  /\ UNCHANGED <<StoreVars, NormVars, ops>>

WlCreate(p) ==
  /\ proc[p].pc = "wl_create"
  /\ LET bandData == proc[p].band
         band == [bandData EXCEPT !.id = seq.band]
     IN IF \E b \in bands : \/ b.name = bandData.name
                            \/ b.ticketmaster_id = bandData.ticketmaster_id
        THEN /\ Reply(p, Resp("wlAddBand", 500))
             /\ UNCHANGED <<bands, seq>>
        ELSE /\ bands' = bands \cup {band}
             /\ seq' = [seq EXCEPT !.band = @ + 1]
             /\ Goto(p, [proc[p] EXCEPT !.pc = "wl_fetch", !.band = band])
  /\ UNCHANGED <<concerts, refs, wishlists, wlrefs, NormVars, ops>>

\* the event fetch: an error or no event leaves the band without concerts
WlFetch(p, batches) ==
  /\ proc[p].pc = "wl_fetch"
  /\ \/ Goto(p, [proc[p] EXCEPT !.pc = "wl_check"])
     \/ \E events \in batches : EnterLoop(p, events)
  /\ UNCHANGED <<StoreVars, NormVars, ops>>

WlCheck(p) ==
  /\ proc[p].pc = "wl_check"
  /\ IF existingReference(Get(proc[p].wishlistId), proc[p].band.id) # {}
     THEN Reply(p, Resp("wlAddBand", 409))
     ELSE Goto(p, [proc[p] EXCEPT !.pc = "wl_link"])
  /\ UNCHANGED <<StoreVars, NormVars, ops>>

WlLink(p) ==
  /\ proc[p].pc = "wl_link"
  /\ LET wishlistId == Get(proc[p].wishlistId)
         band == proc[p].band
     IN IF /\ \E w \in wishlists : w.id = wishlistId
           /\ \E b \in bands : b.id = band.id
        THEN /\ wlrefs' = wlrefs \cup {[id |-> seq.wlref, wishlist_id |-> wishlistId,
                                        band_id |-> band.id]}
             /\ seq' = [seq EXCEPT !.wlref = @ + 1]
             /\ Reply(p, Resp("wlAddBand", 201))
        ELSE /\ Reply(p, Resp("wlAddBand", 500))
             /\ UNCHANGED <<wlrefs, seq>>
  /\ UNCHANGED <<bands, concerts, refs, wishlists, NormVars, ops>>

(* DELETE /wishlists/:id/bands/:bandId *)

WlRemoveStart(p, sequential) ==
  \E wishlistId \in 1..2, bandId \in 1..MaxOps, user \in Users :
    /\ Start(p, sequential)
    /\ LET existingWishlist == wishlistFor(wishlistId, user)
       IN IF existingWishlist.code # 200
          THEN Reply(p, Resp("wlRemoveBand", existingWishlist.code))
          ELSE Goto(p, [proc[p] EXCEPT !.pc = "wl_rm_find", !.op = "wlRemoveBand",
                                       !.user = Some(user),
                                       !.wishlistId = Some(wishlistId),
                                       !.band = [NoBand EXCEPT !.id = bandId]])
    /\ UNCHANGED <<StoreVars, NormVars>>

WlRemoveFind(p) ==
  /\ proc[p].pc = "wl_rm_find"
  /\ LET found == existingReference(Get(proc[p].wishlistId), proc[p].band.id)
     IN IF found = {}
        THEN Reply(p, Resp("wlRemoveBand", 404))
        ELSE \E r \in found :
               Goto(p, [proc[p] EXCEPT !.pc = "wl_rm_delete", !.existing = Some(r)])
  /\ UNCHANGED <<StoreVars, NormVars, ops>>

WlRemoveDelete(p) ==
  /\ proc[p].pc = "wl_rm_delete"
  /\ IF Get(proc[p].existing) \in wlrefs
     THEN /\ wlrefs' = wlrefs \ {Get(proc[p].existing)}
          /\ Reply(p, Resp("wlRemoveBand", 200))
     ELSE /\ Reply(p, Resp("wlRemoveBand", 500))
          /\ UNCHANGED wlrefs
  /\ UNCHANGED <<bands, concerts, refs, wishlists, seq, NormVars, ops>>

(* DELETE /wishlists/:id *)

WlDeleteStart(p, sequential) ==
  \E wishlistId \in 1..2, user \in Users :
    /\ Start(p, sequential)
    /\ LET existingWishlist == wishlistFor(wishlistId, user)
       IN IF existingWishlist.code # 200
          THEN Reply(p, Resp("wlDelete", existingWishlist.code))
          ELSE Goto(p, [proc[p] EXCEPT !.pc = "wl_del_refs", !.op = "wlDelete",
                                       !.user = Some(user),
                                       !.wishlistId = Some(wishlistId)])
    /\ UNCHANGED <<StoreVars, NormVars>>

WlDeleteRefs(p) ==
  /\ proc[p].pc = "wl_del_refs"
  /\ wlrefs' = {r \in wlrefs : r.wishlist_id # Get(proc[p].wishlistId)}
  /\ Goto(p, [proc[p] EXCEPT !.pc = "wl_del_row"])
  /\ UNCHANGED <<bands, concerts, refs, wishlists, seq, NormVars, ops>>

\* prisma.wishlist.delete: throws when the row is gone or still referenced
WlDeleteRow(p) ==
  /\ proc[p].pc = "wl_del_row"
  /\ LET wishlistId == Get(proc[p].wishlistId)
     IN IF /\ \E w \in wishlists : w.id = wishlistId
           /\ ~\E r \in wlrefs : r.wishlist_id = wishlistId
        THEN /\ wishlists' = {w \in wishlists : w.id # wishlistId}
             /\ Reply(p, Resp("wlDelete", 200))
        ELSE /\ Reply(p, Resp("wlDelete", 500))
             /\ UNCHANGED wishlists
  /\ UNCHANGED <<bands, concerts, refs, wlrefs, seq, NormVars, ops>>

----------------------------------------------------------------------------
(* Wishlist Projector: GET /wishlists/:id *)

\* the time value of a date-time, in hours since the epoch (day 0, 00:00)
hourOf(time) == CASE time = "00:00" -> 0 [] time = "10:00" -> 10 [] time = "20:00" -> 20

instant(dt) == dt.day * 24 + hourOf(dt.time)

\* new Date(value): the date itself, the epoch for null
newDate(value) == IF IsSome(value) THEN instant(Get(value)) ELSE 0

\* if (start_date && end_date): skip when concertDate < startDate or > endDate
inDateRange(concert, query) ==
  (IsSome(query.start_date) /\ IsSome(query.end_date)) =>
    ~ \/ newDate(concert.concert_date) < newDate(query.start_date)
      \/ newDate(concert.concert_date) > newDate(query.end_date)

\* mutant: the allow-list is not applied
inCountries_ignored(concert, query) == TRUE

\* if (countries): skip when countries.split(",") does not include the country
inCountries(concert, query) ==
  IsSome(query.countries) => concert.country \in Get(query.countries)

\* the rows of a set in the order of their ids
RECURSIVE byId(_)
byId(rows) ==
  IF rows = {} THEN <<>>
  ELSE LET first == CHOOSE x \in rows : \A y \in rows : x.id <= y.id
       IN <<first>> \o byId(rows \ {first})

RECURSIVE filterSeq(_, _)
filterSeq(xs, keep) ==
  IF xs = <<>> THEN <<>>
  ELSE IF Head(xs) \in keep THEN <<Head(xs)>> \o filterSeq(Tail(xs), keep)
       ELSE filterSeq(Tail(xs), keep)

\* concert_rel of a reference row
concertRel(concertRef) == CHOOSE c \in concerts : c.id = concertRef.concert

\* mutant: every linked band is listed
wishlistBands_all(concert, bandIds) ==
  [i \in 1..Len(byId({r \in refs : r.concert = concert.id})) |->
     byId({r \in refs : r.concert = concert.id})[i].band]

\* concert.bands.map(b => b.band_rel).filter(band => bandIds.includes(band.id))
wishlistBands(concert, bandIds) ==
  LET linked == byId({r \in refs : r.concert = concert.id})
  IN filterSeq([i \in 1..Len(linked) |-> linked[i].band], bandIds)

\* the entry stored in concertsMap for a concert
concertEntry(concert, bandIds) ==
  [id |-> concert.id,
   country |-> concert.country,
   venue |-> concert.venue,
   concert_date |-> concert.concert_date,
   festival |-> concert.festival,
   participating_bands |-> wishlistBands(concert, bandIds),
   wishlist_band_count |-> Len(wishlistBands(concert, bandIds))]

\* band.concerts.forEach: filters, then concertsMap.set unless the id is there
RECURSIVE bandConcerts(_, _, _, _)
bandConcerts(concertRefs, bandIds, query, concertsList) ==
  IF concertRefs = <<>> THEN concertsList
  ELSE LET concert == concertRel(Head(concertRefs))
           has == \E i \in 1..Len(concertsList) : concertsList[i].id = concert.id
       IN IF ~inDateRange(concert, query) \/ ~inCountries(concert, query) \/ has
          THEN bandConcerts(Tail(concertRefs), bandIds, query, concertsList)
          ELSE bandConcerts(Tail(concertRefs), bandIds, query,
                            Append(concertsList, concertEntry(concert, bandIds)))

\* bandsWithConcerts.map: one entry per band of the wishlist
RECURSIVE formattedBands(_, _, _)
formattedBands(bandRows, bandIds, query) ==
  IF bandRows = <<>> THEN <<>>
  ELSE LET band == Head(bandRows)
           concertsList == bandConcerts(byId({r \in refs : r.band = band.id}),
                                        bandIds, query, <<>>)
       IN <<[id |-> band.id, name |-> band.name, concerts |-> concertsList,
             concertCount |-> Len(concertsList)]>>
          \o formattedBands(Tail(bandRows), bandIds, query)

\* mutant: every band's entries are appended, present or not
RECURSIVE addAll_noDedup(_, _)
addAll_noDedup(entries, allConcerts) ==
  IF entries = <<>> THEN allConcerts
  ELSE addAll_noDedup(Tail(entries), Append(allConcerts, Head(entries)))

\* band.concerts.forEach: allConcerts.set unless the id is there
RECURSIVE addAll(_, _)
addAll(entries, allConcerts) ==
  IF entries = <<>> THEN allConcerts
  ELSE IF \E i \in 1..Len(allConcerts) : allConcerts[i].id = Head(entries).id
       THEN addAll(Tail(entries), allConcerts)
       ELSE addAll(Tail(entries), Append(allConcerts, Head(entries)))

RECURSIVE concertsArray(_, _)
concertsArray(formatted, allConcerts) ==
  IF formatted = <<>> THEN allConcerts
  ELSE concertsArray(Tail(formatted), addAll(Head(formatted).concerts, allConcerts))

\* the body of the 200 reply
wishlistView(wishlist, bandIds, query) ==
  LET formatted == formattedBands(byId({b \in bands : b.id \in bandIds}), bandIds, query)
  IN [id |-> wishlist.id,
      bands |-> [i \in 1..Len(formatted) |->
                   [id |-> formatted[i].id, concertCount |-> formatted[i].concertCount]],
      concerts |-> concertsArray(formatted, <<>>)]

\* the query strings of a request: date bounds and a country allow-list
QueryDates ==
  { None,
    Some([day |-> 0, time |-> "00:00"]),
    Some([day |-> 1, time |-> "10:00"]),
    Some([day |-> 2, time |-> "00:00"]),
    Some([day |-> 3, time |-> "00:00"]) }

QueryCountries == { None, Some({"SE"}), Some({"DE", "NO"}) }

Queries == [start_date : QueryDates, end_date : QueryDates, countries : QueryCountries]

\* mutant: the projection is built whether the wishlist is stored or not
GetWishlistStart_noCheck(p, sequential) ==
  \E wishlistId \in 1..2, query \in Queries :
    /\ Start(p, sequential)
    /\ Goto(p, [proc[p] EXCEPT
                  !.pc = "wl_view", !.op = "getWishlist",
                  !.wishlistId = Some(wishlistId), !.req = Some(query),
                  !.bandIds = {r.band_id : r \in {x \in wlrefs :
                                                   x.wishlist_id = wishlistId}}])
    /\ UNCHANGED <<StoreVars, NormVars>>

GetWishlistStart(p, sequential) ==
  \E wishlistId \in 1..2, query \in Queries :
    /\ Start(p, sequential)
    /\ LET found == {w \in wishlists : w.id = wishlistId}
       IN IF found = {}
          THEN Reply(p, Resp("getWishlist", 404))
          ELSE Goto(p, [proc[p] EXCEPT
                          !.pc = "wl_view", !.op = "getWishlist",
                          !.wishlistId = Some(wishlistId), !.req = Some(query),
                          !.bandIds = {r.band_id : r \in {x \in wlrefs :
                                                           x.wishlist_id = wishlistId}}])
    /\ UNCHANGED <<StoreVars, NormVars>>

GetWishlistView(p) ==
  /\ proc[p].pc = "wl_view"
  /\ Reply(p, [Resp("getWishlist", 200) EXCEPT
                 !.query = proc[p].req,
                 !.view = Some(wishlistView([id |-> Get(proc[p].wishlistId)],
                                            proc[p].bandIds, Get(proc[p].req)))])
  /\ UNCHANGED <<StoreVars, NormVars, ops>>

----------------------------------------------------------------------------
(* Specifications *)

Init ==
  /\ bands = {}
  /\ concerts = {}
  /\ refs = {}
  /\ wishlists = {}
  /\ wlrefs = {}
  /\ seq = [band |-> 1, concert |-> 1, ref |-> 1, wishlist |-> 1, wlref |-> 1]
  /\ proc = [p \in Procs |-> Idle]
  /\ ops = 0
  /\ response = NoResp
  /\ batch = <<>>
  /\ result = NotRun

Step(p, batches, sequential) ==
  \/ SyncStart(p, sequential)
  \/ SyncFetch(p, batches)
  \/ FindConcert(p)
  \/ AddConcertCreate(p)
  \/ AddConcertRef(p)
  \/ LinkRead(p)
  \/ LinkCreate(p)
  \/ LoopNext(p)
  \/ PostStart(p, sequential)
  \/ PostLookup(p)
  \/ PostCreate(p)
  \/ PostFetch(p, batches)
  \/ PostWishlist(p)
  \/ DeleteStart(p, sequential)
  \/ DeleteTx(p)
  \/ CreateWishlist(p, sequential)

\* requests of any number of clients, interleaved at their awaits
Next == \E p \in Procs : Step(p, RaceBatches, FALSE)

Spec == Init /\ [][Next]_vars

\* requests issued one after the other: no request starts or moves while
\* another one is in flight
NextSeq == \E p \in Procs : Step(p, FetchBatches, TRUE)

SpecSeq == Init /\ [][NextSeq]_vars

\* requests issued one after the other against a store whose writes can fail,
\* starting with one band stored and no concert
InitFault ==
  /\ bands = {[id |-> 1, name |-> "Alpha", ticketmaster_id |-> "T1"]}
  /\ concerts = {}
  /\ refs = {}
  /\ wishlists = {}
  /\ wlrefs = {}
  /\ seq = [band |-> 2, concert |-> 1, ref |-> 1, wishlist |-> 1, wlref |-> 1]
  /\ proc = [p \in Procs |-> Idle]
  /\ ops = 0
  /\ response = NoResp
  /\ batch = <<>>
  /\ result = NotRun

NextFault ==
  \E p \in Procs :
    \/ Step(p, FetchBatches, TRUE)
    \/ StoreWriteFails(p)

SpecFault == InitFault /\ [][NextFault]_vars

\* sync-concerts and DELETE /bands/:bandId requests for the one stored band,
\* interleaved at their awaits
StepDelSync(p) ==
  \/ SyncStart(p, FALSE)
  \/ SyncFetch(p, RaceBatches)
  \/ FindConcert(p)
  \/ AddConcertCreate(p)
  \/ AddConcertRef(p)
  \/ LinkRead(p)
  \/ LinkCreate(p)
  \/ LoopNext(p)
  \/ DeleteStart(p, FALSE)
  \/ DeleteTx(p)

NextDelSync == \E p \in Procs : StepDelSync(p)

SpecDelSync == InitFault /\ [][NextDelSync]_vars

\* the wishlist routes and the band routes that touch wishlist membership,
\* one request at a time
StepWl(p) ==
  \/ CreateWishlist(p, TRUE)
  \/ WlRenameStart(p, TRUE)
  \/ WlRenameUpdate(p)
  \/ WlAddStart(p, TRUE)
  \/ WlFindBand(p)
  \/ WlLookup(p)
  \/ WlCreate(p)
  \/ WlFetch(p, RaceBatches)
  \/ FindConcert(p)
  \/ AddConcertCreate(p)
  \/ AddConcertRef(p)
  \/ LinkRead(p)
  \/ LinkCreate(p)
  \/ LoopNext(p)
  \/ WlCheck(p)
  \/ WlLink(p)
  \/ WlRemoveStart(p, TRUE)
  \/ WlRemoveFind(p)
  \/ WlRemoveDelete(p)
  \/ WlDeleteStart(p, TRUE)
  \/ WlDeleteRefs(p)
  \/ WlDeleteRow(p)
  \/ PostStart(p, TRUE)
  \/ PostLookup(p)
  \/ PostCreate(p)
  \/ PostFetch(p, RaceBatches)
  \/ PostWishlist(p)
  \/ DeleteStart(p, TRUE)
  \/ DeleteTx(p)

NextWl == \E p \in Procs : StepWl(p)

SpecWl == Init /\ [][NextWl]_vars

\* the projection of a wishlist over stores of three bands and three concerts

ProjBands ==
  { [id |-> 1, name |-> "Alpha", ticketmaster_id |-> "T1"],
    [id |-> 2, name |-> "Beta", ticketmaster_id |-> "T2"],
    [id |-> 3, name |-> "Gamma", ticketmaster_id |-> "T3"] }

\* a concert in Sweden on day 1, one in Germany on day 2, one without a date
ProjConcerts ==
  { concertRow(1, canonicalEvent(
        FullEvent("E1", Some("V1"), Some([day |-> 1, time |-> "10:00"]), Some(2)))),
    concertRow(2, [canonicalEvent(
        FullEvent("E2", Some("V2"), Some([day |-> 2, time |-> "20:00"]), Some(2)))
          EXCEPT !.country = "DE", !.city = "Berlin"]),
    concertRow(3, canonicalEvent(FullEvent("E3", Some("V1"), None, Some(2)))) }

\* the bands a concert of the store can be linked to
ProjLinks == { {}, {1}, {2}, {1, 2, 3} }

\* the bands the wishlist of the store can hold
ProjMembers == { {}, {1}, {1, 2} }

InitProj ==
  /\ bands = ProjBands
  /\ concerts = ProjConcerts
  /\ \E links \in [{c.id : c \in ProjConcerts} -> ProjLinks] :
       refs = {refRow(3 * (l[1] - 1) + l[2], l[1], l[2]) :
                 l \in {x \in (DOMAIN links) \X (1..3) : x[2] \in links[x[1]]}}
  /\ wishlists = {[id |-> 1, name |-> "W", user_id |-> "u1"]}
  /\ \E members \in ProjMembers :
       wlrefs = {[id |-> b, wishlist_id |-> 1, band_id |-> b] : b \in members}
  /\ seq = [band |-> 4, concert |-> 4, ref |-> 10, wishlist |-> 2, wlref |-> 4]
  /\ proc = [p \in Procs |-> Idle]
  /\ ops = 0
  /\ response = NoResp
  /\ batch = <<>>
  /\ result = NotRun

\* one request at a time, all of them served by the same process
NextProj ==
  \/ GetWishlistStart("p1", TRUE)
  \/ GetWishlistView("p1")

SpecProj == InitProj /\ [][NextProj]_vars

\* the normaliser alone, on every batch of at most MaxLen raw events
InitNorm ==
  /\ bands = {}
  /\ concerts = {}
  /\ refs = {}
  /\ wishlists = {}
  /\ wlrefs = {}
  /\ seq = [band |-> 1, concert |-> 1, ref |-> 1, wishlist |-> 1, wlref |-> 1]
  /\ proc = [p \in Procs |-> Idle]
  /\ ops = 0
  /\ response = NoResp
  /\ batch \in SeqsUpTo(NormEvents, MaxLen)
  /\ result = NotRun

NextNorm == Normalize

SpecNorm == InitNorm /\ [][NextNorm]_vars

----------------------------------------------------------------------------
(* Properties *)

Count(rs, band, concert) ==
  Cardinality({r \in rs : r.band = band /\ r.concert = concert})

sameVenueDate(c, event) ==
  c.venue = event.venue /\ c.concert_date = event.concert_date

\* findConcert has just answered request p and nothing has been written since
AfterFind(p) == proc[p].pc \in {"link_read", "addConcert_create"}

LinkReturned(p) == proc[p].pc \in {"link_noop", "link_created"}

\* C1: under sequential requests, every call of addToExistingConcert returns
\* with exactly one reference row for its (band, concert), and a call made
\* when the pair is already linked (the second of two calls) writes nothing.
C1_LinkIdempotent ==
  [][\A p \in Procs :
       (~LinkReturned(p) /\ LinkReturned(p)') =>
         LET band == proc[p].band.id
             concert == Get(proc[p].existing).id
         IN /\ Count(refs', band, concert) = 1
            /\ Count(refs, band, concert) >= 1 => refs' = refs]_vars

\* a call has returned without writing for a pair whose row an earlier call of
\* addToExistingConcert created (it is not the first reference of its concert)
C1_Witness ==
  \E p \in Procs :
    /\ proc[p].pc = "link_noop"
    /\ Count(refs, proc[p].band.id, Get(proc[p].existing).id) = 1
    /\ \E r, r0 \in refs :
         /\ r.band = proc[p].band.id
         /\ r.concert = Get(proc[p].existing).id
         /\ r0.concert = r.concert
         /\ r0.id < r.id

C3_VenueDateMatch ==
  \A p \in Procs :
    AfterFind(p) =>
      LET event == Head(proc[p].queue)
          existing == proc[p].existing
      IN (~\E c \in concerts : c.event_id = event.event_id) =>
           IF \E c \in concerts : sameVenueDate(c, event)
           THEN /\ IsSome(existing)
                /\ Get(existing) \in concerts
                /\ Get(existing).venue = event.venue
                /\ Get(existing).concert_date = event.concert_date
                /\ event.concert_date = None => Get(existing).concert_date = None
           ELSE existing = None

\* a concert returned for its venue and date alone: no stored external id matches
C3_Witness ==
  \E p \in Procs :
    /\ AfterFind(p)
    /\ IsSome(proc[p].existing)
    /\ ~\E c \in concerts : c.event_id = Head(proc[p].queue).event_id
    /\ sameVenueDate(Get(proc[p].existing), Head(proc[p].queue))

\* C4: there is at most one reference row per (band, concert) pair, whatever
\* the interleaving of the requests.
C4_OneRowPerPair ==
  \A r1, r2 \in refs :
    (r1.band = r2.band /\ r1.concert = r2.concert) => r1 = r2

\* C5: a request whose matcher answered not-found inserts its concert at its
\* next step whatever the store holds by then (no lock, no second look), so
\* two overlapping requests store two concerts with one (venue, date).
C5_NoRecheck ==
  [][\A p \in Procs :
       (proc[p].pc = "addConcert_create" /\ proc'[p].pc # "addConcert_create") =>
         \E c \in concerts' \ concerts : sameVenueDate(c, Head(proc[p].queue))]_vars

\* two concert rows with the same venue and scheduled date are stored
C5_Witness ==
  \E c1, c2 \in concerts :
    /\ c1.id # c2.id
    /\ c1.venue = c2.venue
    /\ c1.concert_date = c2.concert_date

rawVenueName(e) == IF IsSome(e.venue) THEN Get(e.venue).name ELSE None

rawCalendarDate(e) ==
  IF IsSome(rawDateTime(e)) THEN Some(Get(rawDateTime(e)).day) ELSE None

sameRawKey(a, b) ==
  rawVenueName(a) = rawVenueName(b) /\ rawCalendarDate(a) = rawCalendarDate(b)

\* C7: two raw events with the same venue name and the same calendar date
\* yield one canonical event, two that differ in either yield two.
C7_DedupKey ==
  (result.ran /\ Len(batch) = 2) =>
    /\ ~result.threw
    /\ Len(result.events) = IF sameRawKey(batch[1], batch[2]) THEN 1 ELSE 2

\* the raw events of a batch that are the first with their key, in input order
RECURSIVE firstOfKey(_, _)
firstOfKey(events, i) ==
  IF i > Len(events) THEN <<>>
  ELSE IF \E j \in 1..(i - 1) : sameRawKey(events[j], events[i])
       THEN firstOfKey(events, i + 1)
       ELSE <<events[i]>> \o firstOfKey(events, i + 1)

\* C8: the output is, in input order, the canonical event of the first raw
\* event of each key, built from that event alone.
C8_FirstWins ==
  result.ran =>
    /\ ~result.threw
    /\ LET kept == firstOfKey(batch, 1)
       IN /\ Len(result.events) = Len(kept)
          /\ \A i \in 1..Len(kept) : result.events[i] = canonicalEvent(kept[i])

\* C9: normalisation never fails, whichever optional nested fields are absent.
C9_NeverThrows == result.ran => ~result.threw

\* C10: a successful band deletion removes exactly the concerts whose only
\* linked band was the deleted one; a concert with another linked band, and a
\* concert never linked to the band, stay.
C10_OrphanCleanup ==
  [][\A p \in Procs :
       (proc[p].pc = "delete_tx" /\ response'.op = "delete" /\ response'.code = 200) =>
         /\ concerts' \subseteq concerts
         /\ \A c \in concerts :
              (c \notin concerts') <=> (bandsOf(refs, c.id) = {proc[p].band.id})]_vars

\* a deletion has removed a concert and left one the band shared with another
C10_Witness ==
  /\ response.op = "delete"
  /\ response.code = 200
  /\ response.removedConcerts # {}
  /\ response.removedConcertReferences > Cardinality(response.removedConcerts)
  /\ concerts # {}

\* C11: a successful deleteBand leaves no band-concert reference, no
\* wishlist-band reference and no band row of the band, and returns exactly
\* the ids of the concerts that were linked to it and to no other band; a
\* deleteBand of an id that names no band answers not-found and changes no
\* table (the transaction is entered only for a stored band).
C11_DeleteBand ==
  [][\A p \in Procs :
       /\ (proc[p].pc = "delete_tx" /\ response'.op = "delete" /\ response'.code = 200) =>
            LET b == proc[p].band.id
            IN /\ ~\E r \in refs' : r.band = b
               /\ ~\E r \in wlrefs' : r.band_id = b
               /\ ~\E x \in bands' : x.id = b
               /\ response'.removedConcerts =
                    {c.id : c \in {x \in concerts : bandsOf(refs, x.id) = {b}}}
       /\ (proc[p].pc = "idle" /\ proc'[p].pc = "delete_tx") => proc'[p].band \in bands
       /\ (response'.op = "delete" /\ response'.code = 404) => UNCHANGED StoreVars]_vars

\* a deletion of a band that was in a wishlist and had a concert of its own
C11_Witness ==
  /\ response.op = "delete"
  /\ response.code = 200
  /\ response.removedWishlistReferences >= 1
  /\ response.removedConcerts # {}

\* C12: addConcert inserts one concert row, whose fields are the canonical
\* event's, then one reference row linking the band to it, and returns the
\* created concert; it deletes and updates nothing.
C12_CreateAndLink ==
  [][\A p \in Procs :
       /\ (proc[p].pc = "addConcert_create" /\ proc'[p] # proc[p]) =>
            LET event == Head(proc[p].queue)
            IN /\ proc'[p].pc = "addConcert_ref"
               /\ \E c \in concerts' \ concerts :
                    /\ concerts' = concerts \cup {c}
                    /\ DOMAIN c = DOMAIN event \cup {"id"}
                    /\ \A f \in DOMAIN event : c[f] = event[f]
                    /\ \A x \in concerts : x.id # c.id
                    /\ proc'[p].created = Some(c)
               /\ UNCHANGED <<bands, refs, wishlists, wlrefs>>
       /\ (proc[p].pc = "addConcert_ref" /\ proc'[p] # proc[p]) =>
            /\ proc'[p].pc = "addConcert_return"
            /\ proc'[p].created = proc[p].created
            /\ \E r \in refs' \ refs :
                 /\ refs' = refs \cup {r}
                 /\ r.band = proc[p].band.id
                 /\ r.concert = Get(proc[p].created).id
            /\ UNCHANGED <<bands, concerts, wishlists, wlrefs>>]_vars

\* addConcert has returned a concert that carries a scheduled date
C12_Witness ==
  \E p \in Procs :
    /\ proc[p].pc = "addConcert_return"
    /\ Get(proc[p].created) \in concerts
    /\ Get(proc[p].created).concert_date # None
    /\ Count(refs, proc[p].band.id, Get(proc[p].created).id) = 1

C14_PartialSync ==
  [][\A p \in Procs :
       (proc[p].op = "sync" /\ proc'[p] # proc[p]) =>
         /\ concerts \subseteq concerts'
         /\ refs \subseteq refs'
         /\ (proc[p].pc \in WritePcs /\ concerts' = concerts /\ refs' = refs) =>
              /\ proc'[p] = Idle
              /\ response' = Resp("sync", 500)
              /\ UNCHANGED StoreVars]_vars

\* the only request so far is a sync that failed at its second event: the
\* first event's concert and reference, and the second's concert, are stored
C14_Witness ==
  /\ ops = 1
  /\ response = Resp("sync", 500)
  /\ Cardinality(concerts) = 2
  /\ Cardinality(refs) = 1

\* C19: every canonical event has festival = TRUE exactly when its raw event
\* lists more than six performers; six performers, or no performer list,
\* give FALSE.
C19_FestivalFlag ==
  (result.ran /\ ~result.threw) =>
    LET kept == firstOfKey(batch, 1)
    IN /\ Len(result.events) = Len(kept)
       /\ \A i \in 1..Len(kept) :
            result.events[i].festival =
              (IsSome(kept[i].attractions) /\ Get(kept[i].attractions) > 6)

\* the normaliser has run on an event that lists seven performers
C19_Witness ==
  /\ result.ran
  /\ ~result.threw
  /\ Len(batch) >= 1
  /\ batch[1].attractions = Some(7)
  /\ result.events[1].festival

\* the concerts linked to at least one of the bands
concertsOfBands(members) == {c \in concerts : bandsOf(refs, c.id) \cap members # {}}

entryIds(view) == {view.concerts[i].id : i \in 1..Len(view.concerts)}

bothDates(query) == IsSome(query.start_date) /\ IsSome(query.end_date)

\* the concert has a scheduled date and start <= date <= end
datedInRange(c, query) ==
  /\ IsSome(c.concert_date)
  /\ instant(Get(query.start_date)) <= instant(Get(c.concert_date))
  /\ instant(Get(c.concert_date)) <= instant(Get(query.end_date))

allowedCountry(c, query) ==
  IsSome(query.countries) => c.country \in Get(query.countries)

\* the projection answered by request p at this step
ViewStep(p) ==
  /\ proc[p].pc = "wl_view"
  /\ response'.op = "getWishlist"
  /\ response'.code = 200

\* C15: the participating bands of every returned concert are exactly the
\* bands linked to the concert that are members of the wishlist.
C15_ParticipatingBands ==
  [][\A p \in Procs :
       ViewStep(p) =>
         LET view == Get(response'.view)
         IN \A i \in 1..Len(view.concerts) :
              LET entry == view.concerts[i]
              IN {entry.participating_bands[j] : j \in 1..Len(entry.participating_bands)}
                   = bandsOf(refs, entry.id) \cap proc[p].bandIds]_vars

\* a returned concert lists two member bands and is linked to a third band
C15_Witness ==
  /\ response.op = "getWishlist"
  /\ response.code = 200
  /\ \E i \in 1..Len(Get(response.view).concerts) :
       LET entry == Get(response.view).concerts[i]
       IN /\ Len(entry.participating_bands) = 2
          /\ Cardinality(bandsOf(refs, entry.id)) = 3

\* C16 as stated: with both bounds supplied the returned concerts are those
\* of the member bands with start <= scheduled date <= end (among those the
\* country filter lets through); with a bound missing no concert of a member
\* band is left out for its date.
C16_DateRange ==
  [][\A p \in Procs :
       ViewStep(p) =>
         LET view == Get(response'.view)
             query == Get(proc[p].req)
             candidates == {c \in concertsOfBands(proc[p].bandIds) :
                              allowedCountry(c, query)}
         IN IF bothDates(query)
            THEN entryIds(view) = {c.id : c \in {x \in candidates : datedInRange(x, query)}}
            ELSE entryIds(view) = {c.id : c \in candidates}]_vars

\* C17: with a country allow-list supplied every returned concert's country
\* is in the list; without one, no concert of a member band that the date
\* filter lets through is left out.
C17_CountryFilter ==
  [][\A p \in Procs :
       ViewStep(p) =>
         LET view == Get(response'.view)
             query == Get(proc[p].req)
         IN IF IsSome(query.countries)
            THEN \A i \in 1..Len(view.concerts) :
                   view.concerts[i].country \in Get(query.countries)
            ELSE \A c \in concertsOfBands(proc[p].bandIds) :
                   (~bothDates(query) \/ datedInRange(c, query)) =>
                     c.id \in entryIds(view)]_vars

\* a projection with the allow-list {SE} and no date bound returned a concert
\* and left out a member band's concert in Germany
C17_Witness ==
  /\ response.op = "getWishlist"
  /\ response.code = 200
  /\ Get(response.query).countries = Some({"SE"})
  /\ ~bothDates(Get(response.query))
  /\ Get(response.view).concerts # <<>>
  /\ \E c \in concertsOfBands({r.band_id : r \in wlrefs}) :
       c.country = "DE" /\ c.id \notin entryIds(Get(response.view))

\* C18: the flat concert list holds no concert twice, and its concerts are
\* the union over the member bands of the band's linked concerts that pass
\* the filters.
C18_FlatUnion ==
  [][\A p \in Procs :
       ViewStep(p) =>
         LET view == Get(response'.view)
             query == Get(proc[p].req)
         IN /\ \A i, j \in 1..Len(view.concerts) :
                 view.concerts[i].id = view.concerts[j].id => i = j
            /\ entryIds(view) =
                 UNION { {c.id : c \in {x \in concerts :
                                          /\ b \in bandsOf(refs, x.id)
                                          /\ inDateRange(x, query)
                                          /\ inCountries(x, query)}} :
                         b \in proc[p].bandIds }]_vars

\* a projection returned two concerts, one of them linked to two member bands
C18_Witness ==
  /\ response.op = "getWishlist"
  /\ response.code = 200
  /\ Len(Get(response.view).concerts) >= 2
  /\ \E i \in 1..Len(Get(response.view).concerts) :
       Get(response.view).concerts[i].wishlist_band_count = 2

\* C20: under sequential requests every wishlist holds each band at most
\* once, and a request to add a band that the wishlist already holds is
\* answered 409 and changes no table.
C20_OnePerWishlist ==
  [][/\ \A r1, r2 \in wlrefs' :
          (r1.wishlist_id = r2.wishlist_id /\ r1.band_id = r2.band_id) => r1 = r2
     /\ \A p \in Procs :
          ( /\ proc[p].pc = "wl_check"
            /\ proc'[p] # proc[p]
            /\ \E r \in wlrefs : /\ r.wishlist_id = Get(proc[p].wishlistId)
                                  /\ r.band_id = proc[p].band.id ) =>
            /\ response' = Resp("wlAddBand", 409)
            /\ UNCHANGED StoreVars]_vars

\* a band already in the wishlist was added again and the request rejected
C20_Witness ==
  /\ response = Resp("wlAddBand", 409)
  /\ wlrefs # {}

AllIdle == \A p \in Procs : proc[p].pc = "idle"

referenced(c) == \E r \in refs : r.concert = c.id

\* C21: under sequential requests, whenever no request is in flight every
\* stored concert is named by at least one band-concert reference; while a
\* request is in flight the only concert without one is the concert addConcert
\* has just created and not yet linked.
C21_NoOrphanConcert ==
  /\ AllIdle => \A c \in concerts : referenced(c)
  /\ \A c \in concerts :
       ~referenced(c) =>
         \E p \in Procs : proc[p].pc = "addConcert_ref" /\ proc[p].created = Some(c)

\* a deletion has removed the deleted band's own concert; the concerts still
\* stored are another band's
C21_Witness ==
  /\ AllIdle
  /\ response.op = "delete"
  /\ response.code = 200
  /\ response.removedConcerts # {}
  /\ concerts # {}
  /\ \A c \in concerts : referenced(c)

\* the band resolved by the attraction lookup has the name or the external id
\* of a stored band
resolvedIsStored(p) ==
  \E b \in bands : \/ b.name = proc[p].band.name
                   \/ b.ticketmaster_id = proc[p].band.ticketmaster_id

\* C22 as stated: no two band rows share a name or an external id, and an
\* add-band request (POST /bands, POST /wishlists/:id/bands) whose resolved
\* external band has the name or the external id of a stored band is answered
\* with the conflict reply (409) and creates no band row.
C22_UniqueBands ==
  [][/\ \A b1, b2 \in bands' :
          (b1.name = b2.name \/ b1.ticketmaster_id = b2.ticketmaster_id) => b1 = b2
     /\ \A p \in Procs :
          ( /\ proc[p].pc \in {"post_create", "wl_create"}
            /\ proc'[p] # proc[p]
            /\ resolvedIsStored(p) ) =>
            /\ response'.code = 409
            /\ bands' = bands]_vars

\* C23: a projection request goes past the wishlist lookup only for a stored
\* wishlist; for an id that names none, its one reply is not-found (404), sent
\* by the lookup step; and no step of a projection request, answered 404 or
\* 200, changes any table or counter of the store.
C23_ReadOnly ==
  [][/\ (AllIdle /\ AllIdle' /\ response'.op = "getWishlist") =>
          response' = Resp("getWishlist", 404)
     /\ \A p \in Procs :
          /\ (proc[p].pc = "idle" /\ proc'[p].pc = "wl_view") =>
               \E w \in wishlists : w.id = Get(proc'[p].wishlistId)
          /\ (proc[p].op = "getWishlist" \/ proc'[p].op = "getWishlist"
                \/ response'.op = "getWishlist") =>
               UNCHANGED StoreVars]_vars

\* a projection was answered not-found over a store that holds a wishlist
\* with two bands
C23_Witness ==
  /\ response = Resp("getWishlist", 404)
  /\ wishlists # {}
  /\ Cardinality(wlrefs) = 2

\* the concerts request p has created so far: those it has counted, and the
\* one addConcert has created and the loop has not counted yet
createdSoFar(local) ==
  local.newConcerts + IF local.pc \in {"addConcert_ref", "addConcert_return"} THEN 1 ELSE 0

\* C24: under sequential requests the count a sync-concerts request reports
\* is the number of concert rows it inserted, one per canonical event for
\* which findConcert answered not-found.  Step by step: the request starts
\* its loop at zero, goes to addConcert exactly when the matcher answered
\* not-found, every step adds as many rows as it adds to the rows created so
\* far and removes none, and the 200 reply reports the rows created so far.
C24_NewConcertCount ==
  [][\A p \in Procs :
       /\ (proc'[p].op = "sync" /\ proc[p].pc \in {"idle", "sync_fetch"}) =>
            createdSoFar(proc'[p]) = 0
       /\ (proc[p].op = "sync" /\ proc[p].pc = "loop" /\ proc'[p] # proc[p]) =>
            (proc'[p].pc = "addConcert_create") = (proc'[p].existing = None)
       /\ (proc[p].op = "sync" /\ proc'[p].op = "sync") =>
            /\ concerts \subseteq concerts'
            /\ Cardinality(concerts' \ concerts) =
                 createdSoFar(proc'[p]) - createdSoFar(proc[p])
       /\ (proc[p].op = "sync" /\ proc'[p].pc = "idle") =>
            /\ concerts' = concerts
            /\ response'.code = 200 =>
                 response'.newConcerts = createdSoFar(proc[p])]_vars

\* the sync that followed the band's creation has reported one new concert,
\* stored next to the one the band had
C24_Witness ==
  /\ response.op = "sync"
  /\ response.code = 200
  /\ response.newConcerts = 1
  /\ ops = 2
  /\ Cardinality(concerts) = 2
  /\ Cardinality(refs) = 2

\* request p has processed the last event of its batch and is about to reply
LoopDone(p) ==
  /\ proc[p].pc \in {"addConcert_return", "link_noop", "link_created"}
  /\ Len(proc[p].queue) = 1

storedCalendarDate(c) ==
  IF IsSome(c.concert_date) THEN Some(isoDate(Get(c.concert_date))) ELSE None

\* C26 as stated: under sequential requests, events at one venue on one
\* calendar date end up as one stored concert, whether they were fetched in
\* one batch or in separate syncs: no two concert rows share a venue and a
\* calendar date.
C26_KeysAgree ==
  \A c1, c2 \in concerts :
    (c1.venue = c2.venue /\ storedCalendarDate(c1) = storedCalendarDate(c2)) => c1 = c2

\* C27 as stated: whatever the interleaving of a deleteBand with syncs of the
\* same band, once no request is in flight every stored concert has a band
\* reference and every band reference names a stored band.
C27_DeleteSyncRace ==
  AllIdle =>
    /\ \A c \in concerts : referenced(c)
    /\ \A r \in refs : \E b \in bands : b.id = r.band

\* C28 as stated: when a POST /bands request is answered with an error, the
\* band row of the request is not stored (the store is as the request found
\* it, and the same request can be repeated).
C28_FailedAddLeavesNoBand ==
  [][\A p \in Procs :
       ( /\ proc[p].op = "postBands"
         /\ proc'[p].pc = "idle"
         /\ response'.op = "postBands"
         /\ response'.code >= 400 ) =>
         proc[p].band \notin bands']_vars

\* C29 as stated: a projection with both date bounds supplied returns no
\* concert whose stored scheduled date is null.
C29_NullDateLeftOut ==
  [][\A p \in Procs :
       (ViewStep(p) /\ bothDates(Get(proc[p].req))) =>
         LET view == Get(response'.view)
         IN \A i \in 1..Len(view.concerts) : IsSome(view.concerts[i].concert_date)]_vars

\* the band references of a wishlist among the rows rs
membersOf(rs, wishlistId) == {r \in rs : r.wishlist_id = wishlistId}

\* C30 as stated: the name and the band references of a wishlist change only
\* at a step of a request for that wishlist issued by its owner; requests of
\* the band routes (POST /bands, DELETE /bands/:bandId, sync-concerts), whose
\* handlers never read the requesting user, change none of them.
C30_OwnerOnly ==
  [][\A w \in wishlists :
       ( \/ membersOf(wlrefs', w.id) # membersOf(wlrefs, w.id)
         \/ ~\E x \in wishlists' : x.id = w.id /\ x.name = w.name ) =>
         \E p \in Procs : /\ proc'[p] # proc[p]
                          /\ proc[p].wishlistId = Some(w.id)
                          /\ proc[p].user = Some(w.user_id)]_vars

====
